---- MODULE Spec2Model ----
(***************************************************************************)
(* A model of rfpy.calc.classes: the Meta geometry record and the RFData   *)
(* analysis record with its operations add_event, add_NEZ, download_NEZ,   *)
(* rotate, calc_snr, deconvolve and to_stream.                             *)
(*                                                                         *)
(* Python attributes that may be None or absent are options: <<>> is       *)
(* None/absent and <<v>> is the value v.  Waveform streams are objects on  *)
(* a heap, since the record keeps the caller's stream by reference and      *)
(* rotates it in place.  Samples are kept symbolically: a stream records    *)
(* which rotation produced its samples, with which velocities, and whether *)
(* the Q trace is negated.  Numbers are fixed point where the code uses    *)
(* floats (velocities in 0.1 km/s, ray parameter in 0.001 s/deg, slowness  *)
(* in 1e-6 s/km).                                                          *)
(***************************************************************************)
EXTENDS Integers, Sequences, FiniteSets, TLC

VARIABLES meta, err, data, rf, heap, last, hist, calls, peer

vars == <<meta, err, data, rf, heap, last, hist, calls, peer>>

\* ------------------------------------------------------------------ options
Nothing == <<>>

Some(v) == <<v>>

IsSet(o) == Len(o) > 0

Val(o) == o[1]

\* ------------------------------------------------------------------ bounds
\* the travel-time model returns between 0 and MaxArrivals arrivals
MaxArrivals == 2

\* the record is followed through at most MaxCalls method calls
MaxCalls == 7

\* ------------------------------------------------------- program constants
DefaultVp == 60

DefaultVs == 36

DefaultAlign == "ZRT"

DegToKm == 111

SampRate == 5

DefaultDts == 120

DefaultTwin == 30

SigBefore == 5

SigAfter == 110

NoiseBefore == 120

TaperSec == 2

\* ------------------------------------------------------------------ inputs
\* fixed point scale of the slowness (1e-6 s/km from 0.001 s/deg)
SlowScale == 1000

\* the demo event of the docstrings: origin time and back-azimuth
OriginTime == 0

BazDemo == 264

\* the i-th arrival the travel-time model lists for the demo geometry
\* (the first is the P arrival of the docstring)
ArrivalNo(i) ==
    [time |-> 768 + 32 * (i - 1),
     name |-> IF i = 1 THEN "P" ELSE "Pdiff",
     ray_param_sec_degree |-> 4738 - 111 * (i - 1),
     incident_angle |-> 15 - (i - 1)]

\* what tpmodel.get_travel_times does: raises, or returns a list of arrivals
TTResults ==
    {[raised |-> TRUE, arrivals |-> <<>>]}
    \cup {[raised |-> FALSE, arrivals |-> [i \in 1..n |-> ArrivalNo(i)]] :
             n \in 0..MaxArrivals}

\* the argument of add_event: an Event with its travel-time lookup, or
\* an object of another type
Events ==
    {[isEvent |-> FALSE, tt |-> [raised |-> TRUE, arrivals |-> <<>>]]}
    \cup {[isEvent |-> TRUE, tt |-> t] : t \in TTResults}

\* heap slots: streams owned by the caller, and the stream the record builds
CallerSlots == {"s1", "s3"}

OwnSlot == "own"

Slots == CallerSlots \cup {OwnSlot}

NotAStream == "notStream"

StreamArgs == CallerSlots \cup {NotAStream}

NoAlign == "None"

ValidAligns == {"ZRT", "LQT", "PVH"}

AlignArgs == {NoAlign} \cup ValidAligns \cup {"XYZ"}

VpArgs == {Nothing, Some(55)}

VsArgs == {Nothing, Some(33)}

TwinArgs == {DefaultTwin, 130}

DtsArgs == {DefaultDts, 60}

\* ----------------------------------------------------------------- streams
\* a stream: channel component letters in trace order, the rotation that
\* produced the samples, the velocities a PVH transform used, whether the
\* Q trace is negated, and the time span
MkStream(ch, rot, t0, t1) ==
    [ch |-> ch, rot |-> rot, vp |-> 0, vs |-> 0, qneg |-> FALSE,
     t0 |-> t0, t1 |-> t1]

\* Stream(traces=[trZ, trN, trE]) of download_NEZ
DownloadedStream(t0, t1) == MkStream(<<"Z", "N", "E">>, "raw", t0, t1)

\* the traces download_data hands back together with an error indicator
FailedStream == MkStream(<<>>, "none", 0, 0)

\* the caller's streams: the demo stream (N, E, Z order, 120 s each side of
\* the first arrival) and a stream without a Z channel
InitHeap ==
    [sl \in Slots |->
        CASE sl = "s1" -> MkStream(<<"N", "E", "Z">>, "raw", 648, 888)
          [] sl = "s3" -> MkStream(<<"N", "E">>, "raw", 648, 888)
          [] OTHER -> FailedStream]

Comps(st) == {st.ch[i] : i \in 1..Len(st.ch)}

\* stream.select(component=c) is non-empty
HasComp(st, c) == c \in Comps(st)

Relabel(ch, from, to) ==
    [i \in 1..Len(ch) |->
        IF \E k \in 1..Len(from) : from[k] = ch[i]
        THEN to[CHOOSE k \in 1..Len(from) : from[k] = ch[i]]
        ELSE ch[i]]

\* Stream.rotate('NE->RT'): pairs the N with the E traces, rotates and
\* renames them in place; with no such pair it does nothing
RotateNE_RT(st) ==
    IF HasComp(st, "N") /\ HasComp(st, "E")
    THEN [st EXCEPT !.ch = Relabel(st.ch, <<"N", "E">>, <<"R", "T">>),
                    !.rot = "NE->RT"]
    ELSE st

\* Stream.rotate('ZNE->LQT'): the same over the Z, N, E triple
RotateZNE_LQT(st) ==
    IF HasComp(st, "Z") /\ HasComp(st, "N") /\ HasComp(st, "E")
    THEN [st EXCEPT !.ch = Relabel(st.ch, <<"Z", "N", "E">>, <<"L", "Q", "T">>),
                    !.rot = "ZNE->LQT"]
    ELSE st

\* for tr in self.data: if tr.stats.channel.endswith('Q'): tr.data = -tr.data
NegateQ(st) ==
    IF HasComp(st, "Q") THEN [st EXCEPT !.qneg = ~st.qneg] ELSE st

\* number of samples trace.trim(a, b) leaves
TrimLen(st, a, b) ==
    LET lo == IF st.t0 > a THEN st.t0 ELSE a
        hi == IF st.t1 < b THEN st.t1 ELSE b
    IN  IF hi >= lo THEN (hi - lo) * SampRate + 1 ELSE 0

\* ---------------------------------------------------------------- geometry
Letters(align) ==
    CASE align = "ZRT" -> <<"Z", "R", "T">>
      [] align = "LQT" -> <<"L", "Q", "T">>
      [] align = "PVH" -> <<"P", "V", "H">>

\* arrival.ray_param_sec_degree/111.
SlowOf(rayParam) == (rayParam * SlowScale) \div DegToKm

\* the try block of Meta.__init__ leaves through its except clause
LookupFails(tt) ==
    \/ tt.raised                  \* get_travel_times raises
    \/ Len(tt.arrivals) > 1       \* print(str + arrivals) raises TypeError
    \/ Len(tt.arrivals) = 0       \* arrivals[0] raises IndexError

\* Meta.__init__; accept is the attribute add_event sets right after
Meta(event, accept) ==
    LET failed  == LookupFails(event.tt)
        arrival == event.tt.arrivals[1]
    IN  [time    |-> OriginTime,
         baz     |-> BazDemo,
         ttime   |-> IF failed THEN Nothing ELSE Some(arrival.time),
         ph      |-> IF failed THEN Nothing ELSE Some(arrival.name),
         slow    |-> IF failed THEN Nothing
                     ELSE Some(SlowOf(arrival.ray_param_sec_degree)),
         inc     |-> IF failed THEN Nothing ELSE Some(arrival.incident_angle),
         vp      |-> DefaultVp,
         vs      |-> DefaultVs,
         align   |-> DefaultAlign,
         rotated |-> FALSE,
         snr     |-> Nothing,
         accept  |-> accept]

\* -------------------------------------------------------------- the record
\* the record's attributes, as one value the operations transform
\* (log collects the warnings the call prints)
Cur == [meta |-> meta, err |-> err, data |-> data, rf |-> rf, heap |-> heap,
        log |-> <<>>]

\* print("Warning: ...")
Warn(s, msg) == [s EXCEPT !.log = Append(@, msg)]

\* a call returns normally, with return value ret
Return(s, ret) == [s |-> s, out |-> "ok", ret |-> ret]

\* a call raises the exception kind
Raise(s, kind) == [s |-> s, out |-> kind, ret |-> Nothing]

M(s) == Val(s.meta)

Stream(s) == s.heap[Val(s.data)]

Arrival(s) == M(s).time + Val(M(s).ttime)

SetMeta(s, field, v) == [s EXCEPT !.meta = Some([M(s) EXCEPT ![field] = v])]

\* (variant) a rejected event is not let through quietly
StageGuardRejectedRaises(s) ==
    IF ~IsSet(s.meta) THEN "raise"
    ELSE IF ~M(s).accept THEN "raise"
    ELSE IF ~IsSet(s.err) THEN "raise"
    ELSE IF Val(s.err) THEN "skip"
    ELSE "go"

\* (variant) the download's error indicator is not looked at
StageGuardErrIgnored(s) ==
    IF ~IsSet(s.meta) THEN "raise"
    ELSE IF ~M(s).accept THEN "skip"
    ELSE IF ~IsSet(s.err) THEN "raise"
    ELSE "go"

\* the two guards every waveform stage starts with:
\*   "raise"  self.meta is None, or self.err was never assigned
\*   "skip"   the event was rejected, or the download reported an error
\*   "go"     otherwise
StageGuard(s) ==
    IF ~IsSet(s.meta) THEN "raise"
    ELSE IF ~M(s).accept THEN "skip"
    ELSE IF ~IsSet(s.err) THEN "raise"
    ELSE IF Val(s.err) THEN "skip"
    ELSE "go"

\* -------------------------------------------------------------- add_event
add_event(s, event) ==
    IF ~event.isEvent THEN Raise(s, "IncorrectType")
    ELSE LET m0 == Meta(event, FALSE)
         IN  IF ~IsSet(m0.ttime)
             THEN Return([s EXCEPT !.meta = Some(Meta(event, FALSE))], Some(FALSE))
             ELSE Return([s EXCEPT !.meta = Some(Meta(event, TRUE))], Some(TRUE))

\* ---------------------------------------------------------------- add_NEZ
\* (variant) the stream is stored before its channels are selected
add_NEZStoresFirst(s, stream) ==
    IF ~IsSet(s.meta) THEN Raise(s, "AttributeError")
    ELSE IF ~M(s).accept THEN Return(s, Nothing)
    ELSE IF stream = NotAStream THEN Raise(s, "IncorrectType")
    ELSE IF /\ HasComp(s.heap[stream], "E")
            /\ HasComp(s.heap[stream], "N")
            /\ HasComp(s.heap[stream], "Z")
         THEN Return([s EXCEPT !.data = Some(stream)], Nothing)
         ELSE Raise([s EXCEPT !.data = Some(stream)], "MissingChannel")

add_NEZ(s, stream) ==
    IF ~IsSet(s.meta) THEN Raise(s, "AttributeError")
    ELSE IF ~M(s).accept THEN Return(s, Nothing)
    ELSE IF stream = NotAStream THEN Raise(s, "IncorrectType")
    ELSE IF /\ HasComp(s.heap[stream], "E")
            /\ HasComp(s.heap[stream], "N")
            /\ HasComp(s.heap[stream], "Z")
         THEN Return([s EXCEPT !.data = Some(stream)], Nothing)
         ELSE Raise(s, "MissingChannel")

\* ----------------------------------------------------------- download_NEZ
\* options.download_data: an error indicator and the three traces
download_data(failed, start, end) ==
    [err |-> failed,
     traces |-> IF failed THEN FailedStream ELSE DownloadedStream(start, end)]

download_NEZ(s, failed, dts) ==
    IF ~IsSet(s.meta) THEN Raise(s, "RequiresEvent")
    ELSE IF ~M(s).accept THEN Return(s, Nothing)
    ELSE LET tstart == Arrival(s) - dts
             tend   == Arrival(s) + dts
             res    == download_data(failed, tstart, tend)
         IN  Return([s EXCEPT !.err = Some(res.err),
                              !.data = Some(OwnSlot),
                              !.heap[OwnSlot] = res.traces], Nothing)

\* ------------------------------------------------------------------ rotate
\* align == 'ZRT'
rotateZRT(s, align) ==
    LET s1 == [s EXCEPT !.heap[Val(s.data)] = RotateNE_RT(Stream(s))]
        s2 == SetMeta(s1, "align", align)
        s3 == SetMeta(s2, "rotated", TRUE)
    IN  Return(s3, Nothing)

\* align == 'LQT'
rotateLQT(s, align) ==
    LET s1 == [s EXCEPT !.heap[Val(s.data)] = NegateQ(RotateZNE_LQT(Stream(s)))]
        s2 == SetMeta(s1, "align", align)
        s3 == SetMeta(s2, "rotated", TRUE)
    IN  Return(s3, Nothing)

\* the velocities the PVH transform uses: "if not vp or not vs"
PickVelocities(s, vp, vs) ==
    IF ~IsSet(vp) \/ ~IsSet(vs)
    THEN [vp |-> M(s).vp, vs |-> M(s).vs]
    ELSE [vp |-> Val(vp), vs |-> Val(vs)]

\* align == 'PVH'
rotatePVH(s, vp, vs, align) ==
    LET v   == PickVelocities(s, vp, vs)
        zrt == RotateNE_RT(Stream(s))
        s1  == [s EXCEPT !.heap[Val(s.data)] = zrt]
        pvh == [zrt EXCEPT !.ch = <<"P", "V", "H">>, !.rot = "PVH",
                           !.vp = v.vp, !.vs = v.vs]
        s2  == [s1 EXCEPT !.heap[OwnSlot] = pvh, !.data = Some(OwnSlot)]
        s3  == SetMeta(s2, "align", align)
        s4  == SetMeta(s3, "rotated", TRUE)
    IN  IF HasComp(zrt, "Z") /\ HasComp(zrt, "R") /\ HasComp(zrt, "T")
        THEN Return(s4, Nothing)
        ELSE Raise(s1, "IndexError")

\* (variant) the flag is set before the tag is validated
rotateInvalidMarksRotated(s, align) ==
    Raise(SetMeta(s, "rotated", TRUE), "InvalidAlignment")

\* the final else: of rotate
rotateInvalid(s, align) == Raise(s, "InvalidAlignment")

\* "if self.meta.rotated: raise"
CheckRotated(s) == M(s).rotated

\* "if not align: align = self.meta.align"
ResolveAlign(s, align) == IF align = NoAlign THEN M(s).align ELSE align

rotate(s, vp, vs, align) ==
    LET g == StageGuard(s)
    IN  IF g = "raise" THEN Raise(s, "AttributeError")
        ELSE IF g = "skip" THEN Return(s, Nothing)
        ELSE IF CheckRotated(s) THEN Raise(s, "AlreadyRotated")
        ELSE LET al == ResolveAlign(s, align)
             IN  IF ~IsSet(s.data) THEN Raise(s, "MissingWaveform")
                 ELSE CASE al = "ZRT" -> rotateZRT(s, al)
                        [] al = "LQT" -> rotateLQT(s, al)
                        [] al = "PVH" -> rotatePVH(s, vp, vs, al)
                        [] OTHER -> rotateInvalid(s, al)

\* ---------------------------------------------------------------- calc_snr
\* the ratio of the signal to the noise window of the chosen trace
SnrOf(st, comp, t1) == [comp |-> comp, vp |-> st.vp, vs |-> st.vs]

calc_snr(s) ==
    LET g == StageGuard(s)
    IN  IF g = "raise" THEN Raise(s, "AttributeError")
        ELSE IF g = "skip" THEN Return(s, Nothing)
        ELSE IF ~IsSet(s.data) THEN Raise(s, "MissingWaveform")
        ELSE LET t1   == Arrival(s) - SigBefore
                 comp == Letters(M(s).align)[1]
             IN  IF ~HasComp(Stream(s), comp) THEN Raise(s, "IndexError")
                 ELSE Return(SetMeta(s, "snr", Some(SnrOf(Stream(s), comp, t1))),
                             Nothing)

\* -------------------------------------------------------------- deconvolve
NoStats == [snr |-> Nothing, slow |-> Nothing, baz |-> Nothing, is_rf |-> FALSE]

RFTrace(channel) == [channel |-> channel, stats |-> NoStats]

\* Stream(traces=[Trace(), Trace(), Trace()])
PlaceholderRF == <<RFTrace(""), RFTrace(""), RFTrace("")>>

\* Stream(traces=[rfL, rfQ, rfT]) with channels 'RF' + align[i]
DeconvolvedRF(align) ==
    [i \in 1..3 |-> RFTrace("RF" \o Letters(align)[i])]

\* _taper(nt, ns) can assign its two ramps
TaperFits(nt, ns) == nt >= ns

\* (variant) deconvolve does not rotate unrotated data
AutoRotateNever(s, align) == Return(s, Nothing)

\* "if not self.meta.rotated: self.rotate(align=align)"
AutoRotate(s, align) ==
    IF ~M(s).rotated
    THEN rotate(Warn(s, "rotating now"), Nothing, Nothing, align)
    ELSE Return(s, Nothing)

\* "if not hasattr(self.meta, 'snr'): self.calc_snr()"
AutoSnr(s) ==
    IF ~IsSet(M(s).snr)
    THEN calc_snr(Warn(s, "calculating snr now"))
    ELSE Return(s, Nothing)

\* "if hasattr(self, 'rf'): print(...)"
NoteDeconvolved(s) ==
    IF IsSet(s.rf) THEN Warn(s, "deconvolved already") ELSE s

\* samples of trL, trQ, trT and trS after their trim
SigLen(s) == TrimLen(Stream(s), Arrival(s) - SigBefore, Arrival(s) + SigAfter)

\* samples of trNl and trNq after their trim
NoiseLen(s) == TrimLen(Stream(s), Arrival(s) - NoiseBefore, Arrival(s) - SigBefore)

\* from the channel selection to the assignment of self.rf
Deconvolution(s, twin) ==
    LET c        == Letters(M(s).align)
        st       == Stream(s)
        sigLen   == SigLen(s)
        noiseLen == NoiseLen(s)
        nt       == twin * SampRate
        ns       == TaperSec * SampRate
    IN  IF ~(HasComp(st, c[1]) /\ HasComp(st, c[2]) /\ HasComp(st, c[3]))
        THEN Raise(s, "IndexError")
        ELSE IF ~TaperFits(nt, ns) \/ sigLen < nt \/ ~TaperFits(sigLen, ns)
        THEN Raise(s, "ValueError")
        ELSE IF noiseLen /= sigLen
        THEN Raise([Warn(s, "problem with lwin") EXCEPT !.rf = Some(PlaceholderRF)],
                   "ValueError")
        ELSE Return([s EXCEPT !.rf = Some(DeconvolvedRF(M(s).align))], Nothing)

deconvolve(s, twin, align) ==
    LET g == StageGuard(s)
    IN  IF g = "raise" THEN Raise(s, "AttributeError")
        ELSE IF g = "skip" THEN Return(s, Nothing)
        ELSE LET r1 == AutoRotate(s, align)
             IN  IF r1.out /= "ok" THEN r1
                 ELSE LET r2 == AutoSnr(r1.s)
                      IN  IF r2.out /= "ok" THEN r2
                          ELSE Deconvolution(NoteDeconvolved(r2.s), twin)

\* --------------------------------------------------------------- to_stream
\* _add_rfstats
add_rfstats(s, trace) ==
    [trace EXCEPT !.stats = [snr   |-> M(s).snr,
                             slow  |-> M(s).slow,
                             baz   |-> Some(M(s).baz),
                             is_rf |-> TRUE]]

to_stream(s) ==
    LET g == StageGuard(s)
    IN  IF g = "raise" THEN Raise(s, "AttributeError")
        ELSE IF g = "skip" THEN Return(s, Nothing)
        ELSE IF ~IsSet(s.rf) THEN Raise(s, "NotDeconvolved")
        ELSE LET r1 == AutoSnr(s)
             IN  IF r1.out /= "ok" THEN r1
                 ELSE LET stream == [i \in 1..3 |-> add_rfstats(r1.s, Val(r1.s.rf)[i])]
                      IN  Return([r1.s EXCEPT !.rf = Some(stream)], Some(stream))

\* ------------------------------------------------------------ the machine
\* what is known of the record's past: a rotation has been carried out, a
\* download has reported an error
NoHist == [rotOK |-> FALSE, errRep |-> FALSE]

Rotated(s) == IsSet(s.meta) /\ M(s).rotated

Accepted(s) == IsSet(s.meta) /\ M(s).accept

\* the stream holds the unrotated N, E and Z traces
RawNEZ(st) == st.rot = "raw" /\ Comps(st) = {"Z", "N", "E"}

HasRawData(s) == IsSet(s.data) /\ RawNEZ(Stream(s))

\* what last keeps of the state the call started in
PreOf(s) == [rotated |-> Rotated(s), raw |-> HasRawData(s)]

\* RFData.__init__
Init ==
    /\ meta = Nothing
    /\ err = Nothing
    /\ data = Nothing
    /\ rf = Nothing
    /\ heap = InitHeap
    /\ hist = NoHist
    /\ calls = 0
    /\ peer = Nothing
    /\ last = [op |-> "init", out |-> "ok", ret |-> Nothing, log |-> <<>>,
               pre |-> [rotated |-> FALSE, raw |-> FALSE]]

\* the history after the call op with result r
Track(op, r) ==
    [rotOK  |-> hist.rotOK \/ (Rotated(r.s) /\ ~Rotated(Cur)),
     errRep |-> hist.errRep
                \/ (op = "download_NEZ" /\ Accepted(Cur) /\ r.s.err = Some(TRUE))]

\* the call op with result r: the record takes the state r.s; last keeps
\* what the caller sees of the call (outcome, return value, warnings) and
\* a summary of the state it started in
Apply(op, r) ==
    /\ calls < MaxCalls
    /\ calls' = calls + 1
    /\ peer' = peer
    /\ meta' = r.s.meta
    /\ err' = r.s.err
    /\ data' = r.s.data
    /\ rf' = r.s.rf
    /\ heap' = r.s.heap
    /\ last' = [op |-> op, out |-> r.out, ret |-> r.ret, log |-> r.s.log,
                pre |-> PreOf(Cur)]

AddEventCall(e) == Apply("add_event", add_event(Cur, e))

AddNEZCall(x) == Apply("add_NEZ", add_NEZ(Cur, x))

DownloadNEZCall(f, d) == Apply("download_NEZ", download_NEZ(Cur, f, d))

RotateCall(p, q, a) == Apply("rotate", rotate(Cur, p, q, a))

CalcSnrCall == Apply("calc_snr", calc_snr(Cur))

DeconvolveCall(w, a) == Apply("deconvolve", deconvolve(Cur, w, a))

ToStreamCall == Apply("to_stream", to_stream(Cur))

AddEvent == \E e \in Events : AddEventCall(e) /\ UNCHANGED hist

AddNEZ == \E x \in StreamArgs : AddNEZCall(x) /\ UNCHANGED hist

DownloadNEZ ==
    \E f \in BOOLEAN, d \in DtsArgs : DownloadNEZCall(f, d) /\ UNCHANGED hist

Rotate ==
    \E p \in VpArgs, q \in VsArgs, a \in AlignArgs :
        RotateCall(p, q, a) /\ UNCHANGED hist

CalcSnr == CalcSnrCall /\ UNCHANGED hist

Deconvolve ==
    \E w \in TwinArgs, a \in AlignArgs : DeconvolveCall(w, a) /\ UNCHANGED hist

ToStream == ToStreamCall /\ UNCHANGED hist

Next ==
    \/ AddEvent
    \/ AddNEZ
    \/ DownloadNEZ
    \/ Rotate
    \/ CalcSnr
    \/ Deconvolve
    \/ ToStream

Spec == Init /\ [][Next]_vars

\* the same machine, keeping the record's history
AddEventH ==
    \E e \in Events :
        AddEventCall(e) /\ hist' = Track("add_event", add_event(Cur, e))

AddNEZH ==
    \E x \in StreamArgs :
        AddNEZCall(x) /\ hist' = Track("add_NEZ", add_NEZ(Cur, x))

DownloadNEZH ==
    \E f \in BOOLEAN, d \in DtsArgs :
        DownloadNEZCall(f, d)
        /\ hist' = Track("download_NEZ", download_NEZ(Cur, f, d))

RotateH ==
    \E p \in VpArgs, q \in VsArgs, a \in AlignArgs :
        RotateCall(p, q, a) /\ hist' = Track("rotate", rotate(Cur, p, q, a))

CalcSnrH == CalcSnrCall /\ hist' = Track("calc_snr", calc_snr(Cur))

DeconvolveH ==
    \E w \in TwinArgs, a \in AlignArgs :
        DeconvolveCall(w, a) /\ hist' = Track("deconvolve", deconvolve(Cur, w, a))

ToStreamH == ToStreamCall /\ hist' = Track("to_stream", to_stream(Cur))

NextH ==
    \/ AddEventH
    \/ AddNEZH
    \/ DownloadNEZH
    \/ RotateH
    \/ CalcSnrH
    \/ DeconvolveH
    \/ ToStreamH

SpecH == Init /\ [][NextH]_vars

\* a second record, RFData(sta) with the demo event accepted, of which only
\* the data attribute is followed (peer); it shares the caller's streams
PeerRecord ==
    [meta |-> Some(Meta([isEvent |-> TRUE,
                         tt |-> [raised |-> FALSE,
                                 arrivals |-> <<ArrivalNo(1)>>]], TRUE)),
     err |-> Nothing, data |-> peer, rf |-> Nothing, heap |-> heap,
     log |-> <<>>]

\* add_NEZ called on the second record
PeerAddNEZ ==
    /\ \E x \in StreamArgs : peer' = add_NEZ(PeerRecord, x).s.data
    /\ UNCHANGED <<meta, err, data, rf, heap, last, hist, calls>>

\* the machine with the second record beside the first
NextP ==
    \/ AddEvent
    \/ AddNEZ
    \/ DownloadNEZ
    \/ Rotate
    \/ CalcSnr
    \/ Deconvolve
    \/ ToStream
    \/ PeerAddNEZ

SpecP == Init /\ [][NextP]_vars

\* ------------------------------------------------------------- properties
StageOps == {"rotate", "calc_snr", "deconvolve", "to_stream"}

\* the call left every attribute of the record, and every stream, as it was
SameRecord ==
    /\ meta' = meta
    /\ err' = err
    /\ data' = data
    /\ rf' = rf
    /\ heap' = heap

Warned(msg) == \E i \in 1..Len(last.log) : last.log[i] = msg

\* C1: on a record whose event was rejected (meta.accept = false), every
\* call to rotate, calc_snr, deconvolve and to_stream returns without
\* raising, returns nothing, and leaves the data, the metadata (rotated,
\* align, the absence of snr) and rf as they were.
C1_RejectedStagesAreNoOps ==
    [][(last'.op \in StageOps /\ IsSet(meta) /\ ~M(Cur).accept)
       => (last'.out = "ok" /\ last'.ret = Nothing /\ SameRecord)]_vars

\* a stage has been called on a rejected record that still holds the
\* waveforms attached while an earlier event was accepted
C1_Witness ==
    /\ last.op \in StageOps
    /\ IsSet(meta) /\ ~M(Cur).accept
    /\ IsSet(data)
    /\ last.out = "ok"

\* C2: RFData(sta), add_event returning True, add_NEZ with an N, E, Z
\* stream (nothing downloaded): rotate() completes and leaves
\* meta.rotated = true, and deconvolve() yields a three-channel rf.
C2_DocstringPipeline ==
    [][(/\ last'.op \in {"rotate", "deconvolve"}
        /\ Accepted(Cur) /\ err = Nothing /\ ~Rotated(Cur)
        /\ IsSet(data) /\ Val(data) \in CallerSlots /\ RawNEZ(Stream(Cur)))
       => /\ RotateCall(Nothing, Nothing, NoAlign)
             => (last'.out = "ok" /\ Rotated(Cur'))
          /\ DeconvolveCall(DefaultTwin, NoAlign)
             => (last'.out = "ok" /\ IsSet(rf') /\ Len(Val(rf')) = 3)]_vars

\* C3: on an accepted record without acquisition error, once a rotate call
\* has succeeded, every later rotate call raises the already-rotated error
\* and leaves the record unchanged.
C3_RotationSingleShot ==
    [][(last'.op = "rotate" /\ hist.rotOK /\ Accepted(Cur) /\ err = Some(FALSE))
       => (last'.out = "AlreadyRotated" /\ SameRecord)]_vars

\* the statistics to_stream attaches to a trace
ExportStats(m) ==
    [snr |-> m.snr, slow |-> m.slow, baz |-> Some(m.baz), is_rf |-> TRUE]

\* C4: to_stream (on an accepted record with no download error recorded)
\* raises the not-deconvolved error when there is no rf; when there is, it
\* succeeds, meta.snr is defined afterwards, and each of the three
\* returned traces carries is_rf = true and the record's snr, slow and baz.
C4_ExportContract ==
    [][(last'.op = "to_stream" /\ Accepted(Cur) /\ err /= Some(TRUE))
       => IF ~IsSet(rf)
          THEN last'.out = "NotDeconvolved"
          ELSE /\ last'.out = "ok"
               /\ IsSet(M(Cur').snr)
               /\ IsSet(last'.ret)
               /\ Len(Val(last'.ret)) = 3
               /\ \A i \in 1..3 :
                    Val(last'.ret)[i].stats = ExportStats(M(Cur'))]_vars

\* C5: whenever the travel-time model returns one or more arrivals, the
\* geometry takes ttime, ph, slow and inc from the first one, a warning is
\* logged if there are several, and add_event returns True.
C5_FirstArrivalTaken ==
    [][\A e \in Events :
         (/\ last'.op = "add_event"
          /\ e.isEvent /\ ~e.tt.raised /\ Len(e.tt.arrivals) >= 1
          /\ AddEventCall(e))
         => /\ last'.out = "ok"
            /\ last'.ret = Some(TRUE)
            /\ M(Cur').ttime = Some(e.tt.arrivals[1].time)
            /\ M(Cur').ph = Some(e.tt.arrivals[1].name)
            /\ M(Cur').slow = Some(SlowOf(e.tt.arrivals[1].ray_param_sec_degree))
            /\ M(Cur').inc = Some(e.tt.arrivals[1].incident_angle)
            /\ (Len(e.tt.arrivals) > 1 => Len(last'.log) > 0)]_vars

\* C6: after every add_event call that returns, accept = true implies
\* ttime, ph, slow and inc are all defined, accept = false implies all four
\* are null, accept = false occurs exactly when the travel-time query
\* raised or returned no arrival, and the returned boolean is accept.
C6_ArrivalFieldsAtomic ==
    [][\A e \in Events :
         (last'.op = "add_event" /\ last'.out = "ok" /\ AddEventCall(e))
         => LET m == M(Cur')
            IN  /\ m.accept => (IsSet(m.ttime) /\ IsSet(m.ph)
                                /\ IsSet(m.slow) /\ IsSet(m.inc))
                /\ ~m.accept => (~IsSet(m.ttime) /\ ~IsSet(m.ph)
                                 /\ ~IsSet(m.slow) /\ ~IsSet(m.inc))
                /\ ~m.accept <=> (e.tt.raised \/ Len(e.tt.arrivals) = 0)
                /\ last'.ret = Some(m.accept)]_vars

ErrStages == {"rotate", "calc_snr", "deconvolve"}

\* C7 as stated: once download_NEZ on an accepted record has reported an
\* error indicator, the indicator is recorded and every later call to
\* rotate, calc_snr and deconvolve returns without raising and without
\* changing the data, meta.rotated, meta.snr or rf.
C7_ErrorStopsEveryLaterStage ==
    [][/\ \A d \in DtsArgs :
            (last'.op = "download_NEZ" /\ Accepted(Cur) /\ DownloadNEZCall(TRUE, d))
            => err' = Some(TRUE)
       /\ (last'.op \in ErrStages /\ hist.errRep)
            => (last'.out = "ok" /\ SameRecord)]_vars

\* C7 amended: the indicator download_NEZ reports on an accepted record is
\* recorded, and while the recorded indicator is an error (until a later
\* download_NEZ on an accepted record replaces it) every call to rotate,
\* calc_snr and deconvolve returns without raising and without changing
\* the data, meta.rotated, meta.snr or rf.
C7_ErrorStopsStagesWhileRecorded ==
    [][/\ \A f \in BOOLEAN, d \in DtsArgs :
            (last'.op = "download_NEZ" /\ Accepted(Cur) /\ DownloadNEZCall(f, d))
            => err' = Some(f)
       /\ (last'.op \in ErrStages /\ err = Some(TRUE))
            => (last'.out = "ok" /\ last'.ret = Nothing /\ SameRecord)]_vars

\* a stage has been called on an accepted record whose download failed
C7_Witness ==
    /\ last.op \in ErrStages
    /\ Accepted(Cur)
    /\ err = Some(TRUE)
    /\ last.out = "ok"

\* the data cover the signal and the noise window alike, and the pulse
\* window twin fits into the signal window
WindowsFit(s, twin) ==
    /\ SigLen(s) = NoiseLen(s)
    /\ SigLen(s) >= twin * SampRate
    /\ twin * SampRate >= TaperSec * SampRate

GivenAligns == ValidAligns \cup {NoAlign}

\* what C8 promises of deconvolve(twin, align) on return
C8_Post(a) ==
    /\ last'.out = "ok"
    /\ Rotated(Cur')
    /\ M(Cur').align = (IF a = NoAlign THEN M(Cur).align ELSE a)
    /\ IsSet(M(Cur').snr)
    /\ (IsSet(M(Cur).snr) => M(Cur').snr = M(Cur).snr)
    /\ RawNEZ(Stream(Cur)) => ~RawNEZ(Stream(Cur'))
    /\ Comps(Stream(Cur')) = {Letters(M(Cur').align)[i] : i \in 1..3}
    /\ IsSet(rf')
    /\ Val(rf') = [i \in 1..3 |-> RFTrace("RF" \o Letters(M(Cur').align)[i])]

ReadyToRotate == Accepted(Cur) /\ err = Some(FALSE) /\ ~Rotated(Cur) /\ HasRawData(Cur)

C9_RotateWithoutData ==
    [][(last'.op = "rotate" /\ Accepted(Cur) /\ ~IsSet(data))
       => (last'.out = "MissingWaveform" /\ ~Rotated(Cur'))]_vars

InvalidAligns == AlignArgs \ GivenAligns

\* C10: on an accepted, error-free, not yet rotated record with raw data,
\* rotate with a tag outside {ZRT, LQT, PVH} raises the invalid-alignment
\* error and leaves the data, meta.align and meta.rotated unchanged, and a
\* following rotate with any valid tag succeeds.
C10_InvalidAlignRejected ==
    [][(last'.op = "rotate" /\ ReadyToRotate)
       => \A p \in VpArgs, q \in VsArgs, a \in InvalidAligns :
            RotateCall(p, q, a)
            => /\ last'.out = "InvalidAlignment"
               /\ SameRecord
               /\ \A p2 \in VpArgs, q2 \in VsArgs, b \in ValidAligns :
                    LET r == rotate(Cur', p2, q2, b)
                    IN  r.out = "ok" /\ Rotated(r.s) /\ M(r.s).align = b]_vars

\* rotate has refused an unknown tag on a record that is ready to rotate
C10_Witness ==
    /\ last.op = "rotate"
    /\ last.out = "InvalidAlignment"
    /\ Accepted(Cur) /\ err = Some(FALSE) /\ ~Rotated(Cur) /\ HasRawData(Cur)

\* C11: add_NEZ on an accepted record stores the stream as the record's
\* data only if the stream has an E, an N and a Z channel; if one of the
\* three is absent the call raises and the record's data (and everything
\* else of the record) is left as it was before the call.
C11_AddNEZValidatesChannels ==
    [][(last'.op = "add_NEZ" /\ Accepted(Cur))
       => \A x \in CallerSlots :
            AddNEZCall(x)
            => IF {"E", "N", "Z"} \subseteq Comps(heap[x])
               THEN last'.out = "ok" /\ data' = Some(x) /\ heap' = heap
               ELSE last'.out = "MissingChannel" /\ SameRecord]_vars

\* add_NEZ has refused a stream that lacks a channel, on a record that
\* already held data, and the record holds that data still
C11_Witness ==
    /\ last.op = "add_NEZ"
    /\ last.out = "MissingChannel"
    /\ Accepted(Cur)
    /\ IsSet(data) /\ RawNEZ(Stream(Cur))

\* C12: two records never share mutable waveform state: rotating or
\* deconvolving one record changes no sample and no channel label that is
\* observable through the data of another record, also when both records
\* were given the same stream through add_NEZ.
C12_NoSharedWaveforms ==
    [][(last'.op \in {"rotate", "deconvolve"} /\ IsSet(peer))
       => heap'[Val(peer)] = heap[Val(peer)]]_vars

\* the call reached the sample-count check of deconvolve and failed it
LwinMismatch == \E i \in 1..Len(last'.log) : last'.log[i] = "problem with lwin"

\* C13: when the trimmed traces of deconvolve do not all have the same
\* sample count, the call signals failure to the caller and leaves no
\* placeholder receiver functions on the record: rf is as before the call,
\* and if there was none, to_stream still raises the not-deconvolved error.
C13_MismatchLeavesNoPlaceholder ==
    [][(last'.op = "deconvolve" /\ LwinMismatch)
       => /\ last'.out /= "ok"
          /\ rf' = rf
          /\ ~IsSet(rf) => to_stream(Cur').out = "NotDeconvolved"]_vars

\* C14: in rotate with align = 'PVH', each of vp and vs that is supplied
\* to the call is the value the free-surface transform uses, and the
\* geometry's stored value is used only for one that was not supplied
\* (vp alone supplied: the supplied vp with the stored vs).
C14_SuppliedVelocitiesUsed ==
    [][(last'.op = "rotate" /\ ReadyToRotate)
       => \A p \in VpArgs, q \in VsArgs :
            RotateCall(p, q, "PVH")
            => /\ last'.out = "ok"
               /\ Stream(Cur').rot = "PVH"
               /\ Stream(Cur').vp = (IF IsSet(p) THEN Val(p) ELSE M(Cur).vp)
               /\ Stream(Cur').vs = (IF IsSet(q) THEN Val(q) ELSE M(Cur).vs)]_vars

\* C15: in every state reachable by calls of add_event, add_NEZ,
\* download_NEZ, rotate, calc_snr, deconvolve and to_stream on one record
\* (states whose last download failed set aside), meta.rotated = true
\* implies that the data hold exactly the three channels named by the
\* letters of meta.align, and meta.rotated = false implies that the data,
\* if present, are the raw N/E/Z set.
C15_RotatedFlagMatchesData ==
    (IsSet(meta) /\ err /= Some(TRUE))
    => IF M(Cur).rotated
       THEN /\ IsSet(data)
            /\ ~RawNEZ(Stream(Cur))
            /\ Comps(Stream(Cur)) = {Letters(M(Cur).align)[i] : i \in 1..3}
       ELSE IsSet(data) => RawNEZ(Stream(Cur))

====
